---- MODULE Spec2Model ----
(***************************************************************************)
(* Model of the training orchestration of gmum/proto-segmentation:         *)
(*   src/sliding_window/module.py  (SlidingWindowModule and its helpers)   *)
(*   src/segmentation/data_module.py (PatchClassificationDataModule)       *)
(*                                                                         *)
(* Floating point values that the code only adds, multiplies by weights or *)
(* compares (loss terms, weights) are integers in a fixed unit.  Values    *)
(* that come out of a division (accuracies, learning rates) are exact      *)
(* rationals <<numerator, denominator>> in lowest terms.                   *)
(***************************************************************************)
EXTENDS Integers, Sequences, FiniteSets, TLC

VARIABLES
    \* ---- SlidingWindowModule fields (module.py 74-111)
    last_layer_only,      \* BOOLEAN
    class_specific,       \* BOOLEAN
    num_warm_epochs,      \* Int
    warmup_batches,       \* Int
    loss_weights,         \* [crs_ent, clst, sep, l1 -> Int]
    metrics,              \* [split_key -> counters]
    lr_scheduler,         \* None or [optimizer |-> "main"]
    best_acc,             \* rational
    \* ---- state of the framework and of the collaborators the module drives
    optimizers,           \* None or [warm |-> optimizer, main |-> optimizer]
    current_epoch,        \* trainer.current_epoch
    global_step,          \* trainer.global_step
    ppnet_mode,           \* which of warm_only / joint / last_only last set the trainable parameters
    best_checkpoint,      \* the most recent '<stage>_best' request of save_model_w_condition
    \* ---- PatchClassificationDataModule and the file system it reads
    data_module,          \* [dataloader_n_jobs, model_image_size, push_length_multiplier]
    annotations_exist,    \* os.path.exists(os.path.join(data_path, 'annotations'))
    \* ---- what the data loaders and the network can hand to a step
    step_inputs,          \* set of [target, out]
    \* ---- the most recent call: its name, what it raised, the collaborator calls it made
    handler,
    raised,
    calls,
    \* ---- history: the sums over the validation batches stepped since the most recent
    \*      on_train_epoch_start, and the largest of 0 and the validation accuracies
    \*      on_validation_epoch_end has computed
    val_batches,
    max_val_acc

vars == <<last_layer_only, class_specific, num_warm_epochs, warmup_batches, loss_weights,
          metrics, lr_scheduler, best_acc, optimizers, current_epoch, global_step,
          ppnet_mode, best_checkpoint, data_module, annotations_exist, step_inputs,
          handler, raised, calls, val_batches, max_val_acc>>

module_config == <<last_layer_only, class_specific, num_warm_epochs, warmup_batches, loss_weights>>
data_vars == <<data_module, annotations_exist, step_inputs>>

None == [none |-> TRUE]     \* Python's None, where the value is otherwise a record
NoError == "none"          \* the call returned normally
Nothing == "-"             \* a collaborator call without that argument

-----------------------------------------------------------------------------
(* Bounds of the model *)

MaxEpoch == 2          \* current_epoch ranges over 0..MaxEpoch, num_warm_epochs too
MaxGlobalStep == 3     \* training steps one trainer takes
MaxBatches == 2        \* batches stepped, all splits together, between two resets

WarmupBatchCounts == {-1, 0, 1, 2}   \* values of warmup_batches

Labels == {0, 1}       \* class 0 is 'void'

-----------------------------------------------------------------------------
(* Exact rationals for the results of Python's float division *)

RECURSIVE GCD(_, _)
GCD(a, b) == IF b = 0 THEN a ELSE GCD(b, a % b)

Rat(n, d) == LET g == GCD(n, d) IN <<n \div g, d \div g>>
RatLess(a, b) == a[1] * b[2] < b[1] * a[2]
RatMul(a, b) == Rat(a[1] * b[1], a[2] * b[2])
RatMin(a, b) == IF RatLess(b, a) THEN b ELSE a
Zero == <<0, 1>>
One == <<1, 1>>

-----------------------------------------------------------------------------
(* module.py 26-36 *)
reset_metrics ==
    [n_examples |-> 0, n_correct |-> 0, n_batches |-> 0, cross_entropy |-> 0,
     cluster_cost |-> 0, loss |-> 0, separation_cost |-> 0, avg_separation_cost |-> 0]

SplitKeys == {"train", "val", "test", "train_last_layer"}

(* module.py 21-23 *)
get_lr(optimizer) == optimizer.param_groups[1]

(* update_lr_warmup scaling by current_step instead of current_step + 1 *)
update_lr_warmup_from_zero(optimizer, current_step, warmup) ==
    IF warmup > 0 /\ current_step < warmup
    THEN LET lr_scale == RatMin(One, Rat(current_step, warmup))
         IN [optimizer EXCEPT !.param_groups =
                [i \in DOMAIN optimizer.param_groups |-> RatMul(lr_scale, optimizer.defaults_lr)]]
    ELSE optimizer

(* module.py 39-44 *)
update_lr_warmup(optimizer, current_step, warmup) ==
    IF warmup > 0 /\ current_step < warmup
    THEN LET lr_scale == RatMin(One, Rat(current_step + 1, warmup))
         IN [optimizer EXCEPT !.param_groups =
                [i \in DOMAIN optimizer.param_groups |-> RatMul(lr_scale, optimizer.defaults_lr)]]
    ELSE optimizer

-----------------------------------------------------------------------------
(* torch.optim.Adam: lr defaults to 1e-3 when the specs give it per group *)
AdamDefaultLr == <<1, 1000>>

(* Learning rates of the configuration (gin), module.py 62-69 *)
joint_optimizer_lr_features == <<1, 10000>>
joint_optimizer_lr_add_on_layers == <<3, 1000>>
joint_optimizer_lr_prototype_vectors == <<3, 1000>>
warm_optimizer_lr_add_on_layers == <<1, 400>>
warm_optimizer_lr_prototype_vectors == <<1, 400>>
last_layer_optimizer_lr == <<1, 100000>>

(* module.py 312-325 *)
warm_optimizer ==
    [param_groups |-> <<warm_optimizer_lr_add_on_layers, warm_optimizer_lr_prototype_vectors>>,
     defaults_lr |-> AdamDefaultLr]

(* module.py 327-353 *)
main_optimizer ==
    IF last_layer_only
    THEN [param_groups |-> <<last_layer_optimizer_lr>>, defaults_lr |-> AdamDefaultLr]
    ELSE [param_groups |-> <<joint_optimizer_lr_features, joint_optimizer_lr_add_on_layers,
                             joint_optimizer_lr_prototype_vectors>>,
          defaults_lr |-> AdamDefaultLr]

(* module.py 312-356 *)
configure_optimizers ==
    /\ optimizers' = [warm |-> warm_optimizer, main |-> main_optimizer]
    /\ lr_scheduler' = [optimizer |-> "main"]
    /\ handler' = "configure_optimizers"
    /\ raised' = NoError
    /\ calls' = <<>>
    /\ UNCHANGED <<module_config, metrics, best_acc, current_epoch, global_step, ppnet_mode,
                   best_checkpoint, data_vars, val_batches, max_val_acc>>

-----------------------------------------------------------------------------
(* What a step receives: the batch's targets, and what the network and the   *)
(* tensor arithmetic of module.py 123-174 make of it: the predicted classes  *)
(* and the scalar loss terms.                                                *)

Batches == {<<1>>, <<0, 1>>}

Costs == {[cross_entropy |-> 1, cluster_cost |-> 1, separation_cost |-> 2,
           avg_separation_cost |-> 1, l1 |-> 3],
          [cross_entropy |-> 2, cluster_cost |-> 0, separation_cost |-> 1,
           avg_separation_cost |-> 1, l1 |-> 0]}

Outputs(target) == [predicted : [DOMAIN target -> Labels], costs : Costs]

StepInputs == UNION {{[target |-> target, out |-> out] : out \in Outputs(target)} : target \in Batches}

(* module.py 177-179: (predicted == target).sum().item() *)
n_correct(predicted, target) == Cardinality({i \in DOMAIN target : predicted[i] = target[i]})

(* module.py 127, 157: separation_cost stays 0 unless class_specific *)
separation_cost(out) == IF class_specific THEN out.costs.separation_cost ELSE 0

(* module.py 185-194 *)
loss(out) ==
    IF class_specific
    THEN loss_weights.crs_ent * out.costs.cross_entropy
         + loss_weights.clst * out.costs.cluster_cost
         + loss_weights.sep * separation_cost(out)
         + loss_weights.l1 * out.costs.l1
    ELSE loss_weights.crs_ent * out.costs.cross_entropy
         + loss_weights.clst * out.costs.cluster_cost
         + loss_weights.sep * out.costs.l1

(* accumulate counting one example per batch *)
accumulate_one_example(m, target, out) ==
    [n_examples |-> m.n_examples + 1,
     n_correct |-> m.n_correct + n_correct(out.predicted, target),
     n_batches |-> m.n_batches + 1,
     cross_entropy |-> m.cross_entropy + out.costs.cross_entropy,
     cluster_cost |-> m.cluster_cost + out.costs.cluster_cost,
     loss |-> m.loss + loss(out),
     separation_cost |-> IF class_specific
                         THEN m.separation_cost + out.costs.separation_cost
                         ELSE m.separation_cost,
     avg_separation_cost |-> IF class_specific
                             THEN m.avg_separation_cost + out.costs.avg_separation_cost
                             ELSE m.avg_separation_cost]

(* module.py 168-169, 178-183, 195: the counters of one split after a batch *)
accumulate(m, target, out) ==
    [n_examples |-> m.n_examples + Len(target),
     n_correct |-> m.n_correct + n_correct(out.predicted, target),
     n_batches |-> m.n_batches + 1,
     cross_entropy |-> m.cross_entropy + out.costs.cross_entropy,
     cluster_cost |-> m.cluster_cost + out.costs.cluster_cost,
     loss |-> m.loss + loss(out),
     separation_cost |-> IF class_specific
                         THEN m.separation_cost + out.costs.separation_cost
                         ELSE m.separation_cost,
     avg_separation_cost |-> IF class_specific
                             THEN m.avg_separation_cost + out.costs.avg_separation_cost
                             ELSE m.avg_separation_cost]

(* train_optimizer keeping the warm optimizer for one epoch too many *)
train_optimizer_late ==
    IF last_layer_only
    THEN "main"
    ELSE IF current_epoch <= num_warm_epochs THEN "warm" ELSE "main"

(* module.py 200-206: the optimizer a training step uses *)
train_optimizer ==
    IF last_layer_only
    THEN "main"
    ELSE IF current_epoch < num_warm_epochs THEN "warm" ELSE "main"

Call(fn, on, arg) == [fn |-> fn, on |-> on, arg |-> arg]

(* Batches stepped since the counters were last reset *)
batches_stepped ==
    metrics["train"].n_batches + metrics["val"].n_batches + metrics["test"].n_batches

(* The framework hands out optimizers (self.optimizers()) and runs the hooks *)
(* only once configure_optimizers has been called.                           *)
trainer_ready == optimizers # None

NoBatches == [n_batches |-> 0, n_examples |-> 0, n_correct |-> 0, loss |-> 0]

(* module.py 116-220 *)
step(split_key, target, out) ==
    /\ trainer_ready
    /\ batches_stepped < MaxBatches
    /\ metrics' = [metrics EXCEPT ![split_key] = accumulate(metrics[split_key], target, out)]
    /\ IF split_key = "train"
       THEN LET which == train_optimizer
                optimizer == update_lr_warmup(optimizers[which], global_step, warmup_batches)
            IN /\ global_step < MaxGlobalStep
               /\ optimizers' = [optimizers EXCEPT ![which] = optimizer]
               /\ global_step' = global_step + 1
               /\ calls' = <<Call("optimizer.zero_grad", which, Nothing),
                             Call("manual_backward", Nothing, loss(out)),
                             Call("optimizer.step", which, Nothing),
                             Call("log", "train_loss_step", loss(out)),
                             Call("log", "lr", get_lr(optimizer))>>
       ELSE /\ UNCHANGED <<optimizers, global_step>>
            /\ calls' = <<>>
    /\ val_batches' = IF split_key = "val"
                      THEN [n_batches |-> val_batches.n_batches + 1,
                            n_examples |-> val_batches.n_examples + Len(target),
                            n_correct |-> val_batches.n_correct
                                          + Cardinality({i \in DOMAIN target :
                                                            out.predicted[i] = target[i]}),
                            loss |-> val_batches.loss + loss(out)]
                      ELSE val_batches
    /\ raised' = NoError
    /\ UNCHANGED <<module_config, lr_scheduler, best_acc, current_epoch, ppnet_mode,
                   best_checkpoint, data_vars, max_val_acc>>

(* module.py 222-223 *)
training_step ==
    /\ \E batch \in step_inputs : step("train", batch.target, batch.out)
    /\ handler' = "training_step"

(* module.py 225-226 *)
validation_step ==
    /\ \E batch \in step_inputs : step("val", batch.target, batch.out)
    /\ handler' = "validation_step"

(* module.py 228-229 *)
test_step ==
    /\ \E batch \in step_inputs : step("test", batch.target, batch.out)
    /\ handler' = "test_step"

-----------------------------------------------------------------------------
(* epoch_phase warming up for one epoch too many *)
epoch_phase_late ==
    IF last_layer_only
    THEN "last_only"
    ELSE IF current_epoch <= num_warm_epochs THEN "warm_only" ELSE "joint"

(* module.py 232-241: which of last_only / warm_only / joint the epoch starts with *)
epoch_phase ==
    IF last_layer_only
    THEN "last_only"
    ELSE IF current_epoch < num_warm_epochs THEN "warm_only" ELSE "joint"

(* reset_all leaving the validation counters alone *)
reset_all_but_val(ms) == [split_key \in DOMAIN ms |-> IF split_key = "val" THEN ms[split_key] ELSE reset_metrics]

(* module.py 245-247 *)
reset_all(ms) == [split_key \in DOMAIN ms |-> reset_metrics]

(* module.py 231-247 *)
on_train_epoch_start ==
    /\ trainer_ready
    /\ ppnet_mode' = epoch_phase
    /\ calls' = (IF ~last_layer_only /\ current_epoch = 0
                 THEN <<Call("log", "message", "WARM-UP START.")>> ELSE <<>>)
                \o <<Call(epoch_phase, "ppnet", Nothing)>>
                \o (IF ~last_layer_only /\ current_epoch >= num_warm_epochs
                       /\ current_epoch = num_warm_epochs
                    THEN <<Call("log", "message", "WARM-UP END.")>> ELSE <<>>)
    /\ metrics' = reset_all(metrics)
    /\ val_batches' = NoBatches
    /\ handler' = "on_train_epoch_start"
    /\ raised' = NoError
    /\ UNCHANGED <<module_config, lr_scheduler, best_acc, optimizers, current_epoch,
                   global_step, best_checkpoint, data_vars, max_val_acc>>

(* stage_key taking the first joint epoch for a warm-up epoch *)
stage_key_late ==
    IF last_layer_only
    THEN "push"
    ELSE IF current_epoch <= num_warm_epochs THEN "warmup" ELSE "nopush"

(* module.py 253-265 *)
stage_key ==
    IF last_layer_only
    THEN "push"
    ELSE IF current_epoch < num_warm_epochs THEN "warmup" ELSE "nopush"

(* module.py 254, 260, 264: the value logged as 'training_stage' *)
training_stage ==
    IF last_layer_only
    THEN 2
    ELSE IF current_epoch < num_warm_epochs THEN 0 ELSE 1

(* steps_lr_scheduler stepping the scheduler in every stage *)
steps_lr_scheduler_always == TRUE

(* module.py 256, 266: the branches that call self.lr_scheduler.step(val_acc) *)
steps_lr_scheduler ==
    IF last_layer_only
    THEN TRUE
    ELSE IF current_epoch < num_warm_epochs THEN FALSE ELSE TRUE

(* is_best accepting an accuracy equal to the best one *)
is_best_or_equal(val_acc) == ~RatLess(val_acc, best_acc)

(* module.py 268 *)
is_best(val_acc) == RatLess(best_acc, val_acc)

(* module.py 271-286: a request to save_model_w_condition *)
Save(model_name, accu, target_accu) ==
    Call("save_model_w_condition", model_name, [accu |-> accu, target_accu |-> target_accu])

(* module.py 249-286 *)
on_validation_epoch_end ==
    /\ trainer_ready
    /\ handler' = "on_validation_epoch_end"
    /\ IF metrics["val"].n_examples = 0 \/ metrics["val"].n_batches = 0
       THEN \* the divisions of lines 250-251
            /\ raised' = "ZeroDivisionError"
            /\ calls' = <<>>
            /\ UNCHANGED <<best_acc, best_checkpoint, max_val_acc>>
       ELSE LET val_acc == Rat(metrics["val"].n_correct, metrics["val"].n_examples)
                val_loss == Rat(metrics["val"].loss, metrics["val"].n_batches)
                best == is_best(val_acc)
            IN /\ raised' = NoError
               /\ calls' = <<Call("log", "training_stage", training_stage)>>
                           \o (IF steps_lr_scheduler
                               THEN <<Call("lr_scheduler.step", Nothing, val_acc)>> ELSE <<>>)
                           \o (IF best
                               THEN <<Call("log", "message", [accuracy |-> val_acc, loss |-> val_loss]),
                                      Save(stage_key \o "_best", val_acc, Zero)>>
                               ELSE <<>>)
                           \o <<Save(stage_key \o "_last", val_acc, Zero)>>
               /\ best_acc' = IF best THEN val_acc ELSE best_acc
               /\ best_checkpoint' = IF best
                                     THEN [model_name |-> stage_key \o "_best", accu |-> val_acc]
                                     ELSE best_checkpoint
               /\ max_val_acc' = IF RatLess(max_val_acc, val_acc) THEN val_acc ELSE max_val_acc
    /\ UNCHANGED <<module_config, metrics, lr_scheduler, optimizers, current_epoch, global_step,
                   ppnet_mode, data_vars, val_batches>>

(* The trainer moves on to the next epoch (trainer.current_epoch) *)
advance_epoch ==
    /\ trainer_ready
    /\ current_epoch < MaxEpoch
    /\ current_epoch' = current_epoch + 1
    /\ handler' = "trainer"
    /\ raised' = NoError
    /\ calls' = <<>>
    /\ UNCHANGED <<module_config, metrics, lr_scheduler, best_acc, optimizers, global_step,
                   ppnet_mode, best_checkpoint, data_vars, val_batches, max_val_acc>>

-----------------------------------------------------------------------------
(* dataset_missing with the test inverted *)
dataset_missing_inverted == annotations_exist

(* data_module.py 36: not os.path.exists(os.path.join(data_path, 'annotations')) *)
dataset_missing == ~annotations_exist

(* data_module.py 35-37 *)
prepare_data ==
    /\ handler' = "prepare_data"
    /\ raised' = IF dataset_missing THEN "ValueError" ELSE NoError
    /\ calls' = <<>>
    /\ UNCHANGED <<module_config, metrics, lr_scheduler, best_acc, optimizers, current_epoch,
                   global_step, ppnet_mode, best_checkpoint, data_vars, val_batches, max_val_acc>>

(* data_module.py 39-45: the loader a dataset is wrapped in *)
get_data_loader(name, dataset) ==
    /\ handler' = name
    /\ raised' = NoError
    /\ calls' = <<dataset,
                  Call("DataLoader", dataset.on,
                       [shuffle |-> ~dataset.arg.is_eval,
                        num_workers |-> data_module.dataloader_n_jobs])>>
    /\ UNCHANGED <<module_config, metrics, lr_scheduler, best_acc, optimizers, current_epoch,
                   global_step, ppnet_mode, best_checkpoint, data_vars, val_batches, max_val_acc>>

(* data_module.py 48-52, 56-60, 64-68 *)
PatchClassificationDataset(split_key, is_eval) ==
    Call("PatchClassificationDataset", split_key,
         [is_eval |-> is_eval, model_image_size |-> data_module.model_image_size])

(* data_module.py 47-53 *)
train_dataloader == get_data_loader("train_dataloader", PatchClassificationDataset("train", FALSE))

(* data_module.py 55-61 *)
val_dataloader == get_data_loader("val_dataloader", PatchClassificationDataset("val", TRUE))

(* data_module.py 63-69: the test loader reads the 'val' split *)
test_dataloader == get_data_loader("test_dataloader", PatchClassificationDataset("val", TRUE))

(* data_module.py 71-79 *)
train_push_dataloader ==
    get_data_loader("train_push_dataloader",
                    Call("PatchClassificationDataset", "train",
                         [is_eval |-> TRUE, model_image_size |-> data_module.model_image_size,
                          push_prototypes |-> TRUE,
                          length_multiplier |-> data_module.push_length_multiplier]))

(* The preprocessing script writes the annotations directory, or somebody removes it *)
filesystem ==
    /\ annotations_exist' = ~annotations_exist
    /\ handler' = "filesystem"
    /\ raised' = NoError
    /\ calls' = <<>>
    /\ UNCHANGED <<module_config, metrics, lr_scheduler, best_acc, optimizers, current_epoch,
                   global_step, ppnet_mode, best_checkpoint, data_module, step_inputs, val_batches,
                   max_val_acc>>

-----------------------------------------------------------------------------
(* The configurations a module is built with (gin) *)
LossWeights == {[crs_ent |-> 1, clst |-> 2, sep |-> -1, l1 |-> 3]}

CpuCounts == {4, 8}
JobCounts == {-1, 0, 1, 2}
ImageSizes == {256, 513}
PushMultipliers == {1, 2, 3}

(* data_module.py 24-33 *)
DataModuleInit(d) ==
    \E n \in JobCounts, cpu \in CpuCounts, size \in ImageSizes, mult \in PushMultipliers :
        d = [dataloader_n_jobs |-> IF n # -1 THEN n ELSE cpu,
             model_image_size |-> size,
             push_length_multiplier |-> mult]

(* module.py 50-111: the state __init__ leaves *)
Constructed ==
    /\ loss_weights \in LossWeights
    /\ metrics = [split_key \in SplitKeys |-> reset_metrics]
    /\ lr_scheduler = None
    /\ best_acc = Zero
    /\ optimizers = None
    /\ current_epoch = 0
    /\ global_step = 0
    /\ ppnet_mode = "constructed"
    /\ best_checkpoint = None
    /\ handler = "__init__"
    /\ raised = NoError
    /\ calls = <<>>
    /\ val_batches = NoBatches
    /\ max_val_acc = Zero

DefaultDataModule ==
    /\ data_module = [dataloader_n_jobs |-> 4, model_image_size |-> 513, push_length_multiplier |-> 1]
    /\ annotations_exist = TRUE

OneInput == [target |-> <<1>>, out |-> [predicted |-> <<1>>, costs |-> CHOOSE c \in Costs : c.l1 = 3]]

(* The phase schedule and the optimizers: every schedule configuration, one batch *)
InitOptim ==
    /\ Constructed
    /\ DefaultDataModule
    /\ last_layer_only \in BOOLEAN
    /\ class_specific = TRUE
    /\ num_warm_epochs \in 0..MaxEpoch
    /\ warmup_batches \in WarmupBatchCounts
    /\ step_inputs = {OneInput}

NextOptim ==
    \/ configure_optimizers
    \/ training_step
    \/ validation_step
    \/ test_step
    \/ on_train_epoch_start
    \/ advance_epoch

SpecOptim == InitOptim /\ [][NextOptim]_vars

(* The loss and the counters: every batch and every network output *)
InitMetrics ==
    /\ Constructed
    /\ DefaultDataModule
    /\ last_layer_only \in BOOLEAN
    /\ class_specific \in BOOLEAN
    /\ num_warm_epochs = 1
    /\ warmup_batches = 0
    /\ step_inputs = StepInputs

NextMetrics ==
    \/ configure_optimizers
    \/ training_step
    \/ validation_step
    \/ test_step
    \/ on_train_epoch_start

SpecMetrics == InitMetrics /\ [][NextMetrics]_vars

(* The epoch hooks: every schedule configuration, batches of every accuracy *)
InitEpoch ==
    /\ Constructed
    /\ DefaultDataModule
    /\ last_layer_only \in BOOLEAN
    /\ class_specific = TRUE
    /\ num_warm_epochs \in 0..MaxEpoch
    /\ warmup_batches = 0
    /\ step_inputs = {b \in StepInputs : b.out.costs = OneInput.out.costs}

NextEpoch ==
    \/ configure_optimizers
    \/ validation_step
    \/ on_train_epoch_start
    \/ on_validation_epoch_end
    \/ advance_epoch

SpecEpoch == InitEpoch /\ [][NextEpoch]_vars

(* The data module *)
InitData ==
    /\ Constructed
    /\ last_layer_only = FALSE
    /\ class_specific = TRUE
    /\ num_warm_epochs = 1
    /\ warmup_batches = 0
    /\ step_inputs = {OneInput}
    /\ DataModuleInit(data_module)
    /\ annotations_exist \in BOOLEAN

NextData ==
    \/ prepare_data
    \/ train_dataloader
    \/ val_dataloader
    \/ test_dataloader
    \/ train_push_dataloader
    \/ filesystem

SpecData == InitData /\ [][NextData]_vars

-----------------------------------------------------------------------------
(* Properties *)

(* The collaborator calls of a trace whose name is one of fns *)
Select(trace, fns) == SelectSeq(trace, LAMBDA c : c.fn \in fns)

FreezeFns == {"warm_only", "joint", "last_only"}
StepHandlers == [train |-> "training_step", val |-> "validation_step", test |-> "test_step"]
Returned(h) == handler' = h /\ raised' = NoError

(* C1: on_train_epoch_start invokes exactly one of last_only / warm_only / joint:   *)
(* last_only when last_layer_only, else warm_only when current_epoch <              *)
(* num_warm_epochs, else joint; current_epoch never decreases, and once joint has   *)
(* set the trainable parameters warm_only never sets them again.                    *)
C1_PhaseOrder ==
    [][/\ handler' = "on_train_epoch_start" =>
            LET phase == IF last_layer_only THEN "last_only"
                         ELSE IF current_epoch < num_warm_epochs THEN "warm_only"
                         ELSE "joint"
            IN /\ Select(calls', FreezeFns) = <<Call(phase, "ppnet", Nothing)>>
               /\ ppnet_mode' = phase
       /\ handler' # "on_train_epoch_start" => Select(calls', FreezeFns) = <<>> /\ ppnet_mode' = ppnet_mode
       /\ current_epoch' >= current_epoch
       /\ ppnet_mode = "joint" => ppnet_mode' # "warm_only"
       /\ last_layer_only => ppnet_mode' \in {"constructed", "last_only"}]_vars

(* C1 witness: an epoch started with joint after at least one warm-up epoch *)
C1_Witness ==
    /\ handler = "on_train_epoch_start"
    /\ ppnet_mode = "joint"
    /\ num_warm_epochs > 0
    /\ current_epoch > num_warm_epochs

(* C2: a training step steps exactly one optimizer, the warm one iff last_layer_only *)
(* is false and current_epoch < num_warm_epochs (the epochs on_train_epoch_start     *)
(* starts with warm_only), the main one otherwise, and leaves the other optimizer    *)
(* alone; validation and test steps step no optimizer and change no learning rate.   *)
C2_ManualStepping ==
    [][/\ handler' = "training_step" =>
            LET warm == ~last_layer_only /\ current_epoch < num_warm_epochs
                used == IF warm THEN "warm" ELSE "main"
                other == IF warm THEN "main" ELSE "warm"
            IN /\ Select(calls', {"optimizer.step"}) = <<Call("optimizer.step", used, Nothing)>>
               /\ Select(calls', {"optimizer.zero_grad"}) = <<Call("optimizer.zero_grad", used, Nothing)>>
               /\ optimizers'[other] = optimizers[other]
       /\ handler' \in {"validation_step", "test_step"} =>
            /\ Select(calls', {"optimizer.step"}) = <<>>
            /\ optimizers' = optimizers
       /\ handler' = "on_train_epoch_start" =>
            ((ppnet_mode' = "warm_only") <=> (~last_layer_only /\ current_epoch < num_warm_epochs))]_vars

(* C2 witness: a training step of a joint epoch, after warm-up epochs, stepped the main optimizer *)
C2_Witness ==
    /\ handler = "training_step"
    /\ ~last_layer_only
    /\ num_warm_epochs > 0
    /\ current_epoch >= num_warm_epochs
    /\ Select(calls, {"optimizer.step"}) = <<Call("optimizer.step", "main", Nothing)>>

(* C3: the loss a step adds to its split's counters is                               *)
(* loss_weight_crs_ent * cross_entropy + loss_weight_clst * cluster_cost             *)
(* + loss_weight_sep * separation_cost + loss_weight_l1 * l1, with separation_cost 0 *)
(* when class_specific is false.                                                     *)
C3_WeightedLoss ==
    [][\A k \in DOMAIN StepHandlers :
          handler' = StepHandlers[k] =>
              \E batch \in step_inputs :
                  LET c == batch.out.costs
                  IN /\ metrics'[k].cross_entropy = metrics[k].cross_entropy + c.cross_entropy
                     /\ metrics'[k].cluster_cost = metrics[k].cluster_cost + c.cluster_cost
                     /\ metrics'[k].loss = metrics[k].loss
                            + loss_weights.crs_ent * c.cross_entropy
                            + loss_weights.clst * c.cluster_cost
                            + loss_weights.sep * (IF class_specific THEN c.separation_cost ELSE 0)
                            + loss_weights.l1 * c.l1]_vars

(* C4: a step for split k adds 1 to its n_batches, the batch size to its n_examples  *)
(* and between 0 and the batch size to its n_correct, and leaves the counters of the *)
(* other splits alone; always 0 <= n_correct <= n_examples, and n_batches > 0        *)
(* implies n_examples > 0.                                                           *)
C4_MetricAccumulation ==
    /\ [](\A k \in SplitKeys :
             /\ 0 <= metrics[k].n_correct
             /\ metrics[k].n_correct <= metrics[k].n_examples
             /\ metrics[k].n_batches > 0 => metrics[k].n_examples > 0)
    /\ [][\A k \in DOMAIN StepHandlers :
             handler' = StepHandlers[k] =>
                 /\ metrics'[k].n_batches = metrics[k].n_batches + 1
                 /\ \E batch \in step_inputs :
                       /\ metrics'[k].n_examples = metrics[k].n_examples + Len(batch.target)
                       /\ metrics'[k].n_correct - metrics[k].n_correct \in 0..Len(batch.target)
                 /\ \A j \in SplitKeys \ {k} : metrics'[j] = metrics[j]]_vars

(* C4 witness: two splits hold batches, one of them with a wrong prediction *)
C4_Witness ==
    /\ metrics["train"].n_batches > 0
    /\ metrics["val"].n_examples = 2
    /\ metrics["val"].n_correct = 1
    /\ handler = "validation_step"

BestNames == {"warmup_best", "nopush_best", "push_best"}
BestSaves(trace) == SelectSeq(trace, LAMBDA c : c.fn = "save_model_w_condition" /\ c.on \in BestNames)

(* C5: on_validation_epoch_end requests a '<stage>_best' save iff val_acc > best_acc *)
(* and then sets best_acc to val_acc; best_acc starts at 0, never decreases, always  *)
(* equals the largest of 0 and the validation accuracies computed so far, and is the *)
(* accuracy of the most recent '<stage>_best' request.                               *)
C5_BestCheckpoint ==
    /\ best_acc = Zero
    /\ [](best_acc = max_val_acc)
    /\ [](IF best_checkpoint = None THEN best_acc = Zero ELSE best_checkpoint.accu = best_acc)
    /\ [][/\ ~RatLess(best_acc', best_acc)
          /\ Returned("on_validation_epoch_end") =>
               LET val_acc == Rat(metrics["val"].n_correct, metrics["val"].n_examples)
               IN /\ (BestSaves(calls') # <<>>) <=> RatLess(best_acc, val_acc)
                  /\ Len(BestSaves(calls')) <= 1
                  /\ \A i \in DOMAIN BestSaves(calls') : BestSaves(calls')[i].arg.accu = val_acc
                  /\ best_acc' = IF RatLess(best_acc, val_acc) THEN val_acc ELSE best_acc
          /\ ~Returned("on_validation_epoch_end") => BestSaves(calls') = <<>> /\ best_acc' = best_acc]_vars

(* C5 witness: a validation epoch ended without a best save, after an earlier one set best_acc *)
C5_Witness ==
    /\ handler = "on_validation_epoch_end"
    /\ raised = NoError
    /\ best_acc = <<1, 2>>
    /\ best_checkpoint # None
    /\ BestSaves(calls) = <<>>

(* C6: prepare_data raises ValueError iff nothing exists at data_path/annotations,   *)
(* returns normally otherwise, and changes nothing of the data module.               *)
C6_PrepareData ==
    [][handler' = "prepare_data" =>
          /\ raised' = IF annotations_exist THEN NoError ELSE "ValueError"
          /\ data_module' = data_module
          /\ annotations_exist' = annotations_exist]_vars

(* C6 witness: prepare_data raised ValueError *)
C6_Witness ==
    /\ handler = "prepare_data"
    /\ raised = "ValueError"
    /\ ~annotations_exist

ZeroCounters ==
    [n_examples |-> 0, n_correct |-> 0, n_batches |-> 0, cross_entropy |-> 0,
     cluster_cost |-> 0, loss |-> 0, separation_cost |-> 0, avg_separation_cost |-> 0]

LastSaves(trace) ==
    SelectSeq(trace, LAMBDA c : c.fn = "save_model_w_condition" /\ c.on \notin BestNames)

(* C7: on_train_epoch_start zeroes the counters of all four splits in every phase,   *)
(* so the validation counters are the sums over the validation batches stepped since *)
(* the most recent on_train_epoch_start (or since construction), and val_acc and     *)
(* val_loss of on_validation_epoch_end are computed from exactly those batches.      *)
C7_ResetPerEpoch ==
    /\ [](/\ metrics["val"].n_batches = val_batches.n_batches
          /\ metrics["val"].n_examples = val_batches.n_examples
          /\ metrics["val"].n_correct = val_batches.n_correct
          /\ metrics["val"].loss = val_batches.loss)
    /\ [][/\ handler' = "on_train_epoch_start" =>
               /\ DOMAIN metrics' = SplitKeys
               /\ \A k \in SplitKeys : metrics'[k] = ZeroCounters
               /\ Select(calls', FreezeFns) # <<>>
          /\ Returned("on_validation_epoch_end") =>
               LET val_acc == Rat(val_batches.n_correct, val_batches.n_examples)
                   val_loss == Rat(val_batches.loss, val_batches.n_batches)
               IN /\ \A i \in DOMAIN LastSaves(calls') : LastSaves(calls')[i].arg.accu = val_acc
                  /\ LastSaves(calls') # <<>>
                  /\ \A i \in DOMAIN calls' :
                        calls'[i].fn = "log" /\ calls'[i].on = "message" =>
                            calls'[i].arg = [accuracy |-> val_acc, loss |-> val_loss]]_vars

(* C7 witness: a validation epoch ended on one wrong example although an earlier     *)
(* epoch had reached accuracy 1: the earlier batches are no longer counted           *)
C7_Witness ==
    /\ handler = "on_validation_epoch_end"
    /\ raised = NoError
    /\ best_acc = One
    /\ metrics["val"].n_examples = 1
    /\ metrics["val"].n_correct = 0
    /\ ppnet_mode # "constructed"

PhaseStage == [last_only |-> "push", warm_only |-> "warmup", joint |-> "nopush"]

(* C8: on_validation_epoch_end logs training_stage 2 and uses stage 'push' iff       *)
(* last_layer_only, 0 and 'warmup' iff not last_layer_only and current_epoch <       *)
(* num_warm_epochs, 1 and 'nopush' otherwise, which is the stage of the phase an     *)
(* on_train_epoch_start of the same epoch chooses; and it always requests exactly    *)
(* one '<stage>_last' save, as its last request, with target accuracy 0.             *)
C8_StageAndLastSave ==
    /\ [](PhaseStage[epoch_phase] = stage_key)
    /\ [][Returned("on_validation_epoch_end") =>
              LET warm == ~last_layer_only /\ current_epoch < num_warm_epochs
                  stage == IF last_layer_only THEN "push" ELSE IF warm THEN "warmup" ELSE "nopush"
                  number == IF last_layer_only THEN 2 ELSE IF warm THEN 0 ELSE 1
                  val_acc == Rat(metrics["val"].n_correct, metrics["val"].n_examples)
                  saves == Select(calls', {"save_model_w_condition"})
              IN /\ calls'[1] = Call("log", "training_stage", number)
                 /\ LastSaves(calls') = <<Save(stage \o "_last", val_acc, Zero)>>
                 /\ saves[Len(saves)] = Save(stage \o "_last", val_acc, Zero)
                 /\ \A i \in DOMAIN BestSaves(calls') :
                        BestSaves(calls')[i] = Save(stage \o "_best", val_acc, Zero)]_vars

(* C8 witness: a joint epoch's validation ended with a 'nopush_last' save and no best save *)
C8_Witness ==
    /\ handler = "on_validation_epoch_end"
    /\ raised = NoError
    /\ ~last_layer_only
    /\ current_epoch >= num_warm_epochs
    /\ num_warm_epochs > 0
    /\ BestSaves(calls) = <<>>
    /\ LastSaves(calls) # <<>>

(* C9: the plateau scheduler is attached to the main optimizer; on_validation_epoch_end *)
(* steps it exactly once, with val_acc, when last_layer_only or current_epoch >=        *)
(* num_warm_epochs, and not at all in a warm-up epoch; nothing else steps it.           *)
C9_SchedulerSteps ==
    /\ [](lr_scheduler # None => lr_scheduler.optimizer = "main")
    /\ [][/\ Returned("on_validation_epoch_end") =>
               LET warm == ~last_layer_only /\ current_epoch < num_warm_epochs
                   val_acc == Rat(metrics["val"].n_correct, metrics["val"].n_examples)
               IN Select(calls', {"lr_scheduler.step"}) =
                      IF warm THEN <<>> ELSE <<Call("lr_scheduler.step", Nothing, val_acc)>>
          /\ ~Returned("on_validation_epoch_end") => Select(calls', {"lr_scheduler.step"}) = <<>>]_vars

(* C9 witness: a joint epoch after warm-up epochs stepped the scheduler *)
C9_Witness ==
    /\ handler = "on_validation_epoch_end"
    /\ ~last_layer_only
    /\ num_warm_epochs > 0
    /\ current_epoch >= num_warm_epochs
    /\ Select(calls, {"lr_scheduler.step"}) # <<>>

(* C10: a training step at global_step s with warmup_batches w > 0 and s < w sets   *)
(* every parameter group of the optimizer it steps to ((s + 1) / w) * defaults lr,  *)
(* a scale in (0, 1] that does not decrease with s and is 1 at s = w - 1; with      *)
(* w <= 0 or s >= w it leaves the groups as they were; the other optimizer is left  *)
(* alone.                                                                           *)
C10_LinearWarmup ==
    /\ [](optimizers # None =>
             \A name \in {"warm", "main"} : \A s \in 0..(warmup_batches - 2) :
                 ~RatLess(get_lr(update_lr_warmup(optimizers[name], s + 1, warmup_batches)),
                          get_lr(update_lr_warmup(optimizers[name], s, warmup_batches))))
    /\ [][handler' = "training_step" =>
              \E used \in {"warm", "main"} :
                  LET other == IF used = "warm" THEN "main" ELSE "warm"
                      old == optimizers[used]
                      new == optimizers'[used]
                      s == global_step
                      w == warmup_batches
                  IN /\ Select(calls', {"optimizer.step"}) = <<Call("optimizer.step", used, Nothing)>>
                     /\ optimizers'[other] = optimizers[other]
                     /\ new.defaults_lr = old.defaults_lr
                     /\ DOMAIN new.param_groups = DOMAIN old.param_groups
                     /\ IF w > 0 /\ s < w
                        THEN /\ \A i \in DOMAIN new.param_groups :
                                   /\ new.param_groups[i][1] * w * old.defaults_lr[2]
                                          = (s + 1) * old.defaults_lr[1] * new.param_groups[i][2]
                                   /\ RatLess(Zero, new.param_groups[i])
                                   /\ ~RatLess(old.defaults_lr, new.param_groups[i])
                                   /\ s = w - 1 => new.param_groups[i] = old.defaults_lr
                        ELSE new.param_groups = old.param_groups]_vars

(* C10 witness: the first of two warm-up batches left the warm optimizer at half the default lr *)
C10_Witness ==
    /\ handler = "training_step"
    /\ warmup_batches = 2
    /\ global_step = 1
    /\ optimizers # None
    /\ optimizers["warm"].param_groups = <<<<1, 2000>>, <<1, 2000>>>>

====
